---- MODULE Spec2Model ----
(***************************************************************************)
(* State-machine model of server.js: the in-memory room registry, the      *)
(* per-connection handlers (createRoom, joinRoom, leaveRoom,               *)
(* updateSettings, startGame, close) and broadcastGameState.               *)
(*                                                                         *)
(* Node runs every handler to completion on one thread, so each handler    *)
(* is one atomic action.  Room objects live in a heap and are referenced   *)
(* from the registry (rooms) and from each connection's currentRoom, as    *)
(* in the source; an object nobody references any more is dropped from     *)
(* the heap.                                                               *)
(***************************************************************************)
EXTENDS Integers, Sequences, FiniteSets, TLC

\* ---- bounds ------------------------------------------------------------
NumSessions == 3      \* connections that may ever be opened
NumCodes == 2         \* size of the room-code space (9000 in the source)
MaxEvents == 4        \* state-changing events of open connections in one run

\* Date.now() takes the values 0..MaxClock: one reading per connection
MaxClock == NumSessions - 1

Sessions == 1..NumSessions
FirstCode == 1000     \* Math.floor(1000 + Math.random() * 9000)
CodeNumbers == FirstCode..(FirstCode + NumCodes - 1)
Codes == {ToString(n) : n \in CodeNumbers}
ObjIds == 1..(NumCodes + NumSessions)

Null == 0                  \* currentRoom = null
NoId == ""                 \* playerId of a connection not yet established
Undefined == "undefined"   \* the JavaScript value undefined in a role slot

\* ---- state -------------------------------------------------------------
VARIABLES
    now,          \* the clock read by Date.now()
    status,       \* per connection: "new", "open", "closed"
    playerId,     \* per connection: const playerId
    currentRoom,  \* per connection: let currentRoom (heap reference or Null)
    rooms,        \* const rooms = new Map(): room code -> heap reference
    heap,         \* heap reference -> room object
    hist,         \* history: per room object, successful joins and leaves
    left,         \* history: connections that left by leaveRoom and have not
                  \* created or joined a room since
    hung,         \* generateRoomCode is spinning: the event loop is blocked
    sent,         \* the messages sent by the handler that ran last, in order
    ev,           \* the event handled last and its outcome
    steps         \* the number of state-changing events handled so far

vars == <<now, status, playerId, currentRoom, rooms, heap, hist, left, hung, sent, ev, steps>>

\* ---- room objects ------------------------------------------------------
\* roles as received from JSON: an array of {name, count}, or not an array
RolesArray(items) == [isArray |-> TRUE, items |-> items]
RolesUndefined == [isArray |-> FALSE, items |-> <<>>]

\* "dangcheom" / "kkwang" stand for the source's role names (win / blank)
DefaultRoles == RolesArray(<<[name |-> "dangcheom", count |-> 3],
                             [name |-> "kkwang", count |-> 2]>>)

DefaultMaxPlayers == 5

\* (a variant whose rooms are born started)
createRoomStarted(roomCode) ==
    [code |-> roomCode,
     host |-> NoId,
     maxPlayers |-> DefaultMaxPlayers,
     roles |-> DefaultRoles,
     players |-> <<>>,
     gameStarted |-> TRUE]

\* function createRoom(roomCode)
createRoom(roomCode) ==
    [code |-> roomCode,
     host |-> NoId,
     maxPlayers |-> DefaultMaxPlayers,
     roles |-> DefaultRoles,
     players |-> <<>>,
     gameStarted |-> FALSE]

\* ---- Map operations on room.players (a sequence in insertion order) -----
PlayerData(pid, s, t) == [id |-> pid, ws |-> s, joinTime |-> t]

MapKeys(ps) == [i \in 1..Len(ps) |-> ps[i].id]

MapHas(ps, pid) == \E i \in 1..Len(ps) : ps[i].id = pid

\* Map.prototype.set: an existing key keeps its place and gets the new value
MapSet(ps, pid, val) ==
    IF MapHas(ps, pid)
    THEN [i \in 1..Len(ps) |-> IF ps[i].id = pid THEN val ELSE ps[i]]
    ELSE Append(ps, val)

\* Map.prototype.delete
MapDelete(ps, pid) == SelectSeq(ps, LAMBDA p : p.id # pid)

\* Array.prototype.sort((a, b) => a.joinTime - b.joinTime): stable
RECURSIVE InsertByJoinTime(_, _)
InsertByJoinTime(sorted, p) ==
    IF sorted = <<>> THEN <<p>>
    ELSE IF Head(sorted).joinTime <= p.joinTime
         THEN <<Head(sorted)>> \o InsertByJoinTime(Tail(sorted), p)
         ELSE <<p>> \o sorted

RECURSIVE SortByJoinTime(_)
SortByJoinTime(ps) ==
    IF ps = <<>> THEN <<>>
    ELSE InsertByJoinTime(SortByJoinTime(SubSeq(ps, 1, Len(ps) - 1)), ps[Len(ps)])

\* (a variant that takes the other end of the sorted array)
YoungestPlayer(ps) == SortByJoinTime(ps)[Len(ps)]

\* Array.from(players.values()).sort(...)[0]
OldestPlayer(ps) == SortByJoinTime(ps)[1]

\* ---- messages ----------------------------------------------------------
\* broadcastGameState(room): one gameState per member whose socket is OPEN
GameStateMsg(room, p) ==
    [to |-> p.ws,
     type |-> "gameState",
     roomCode |-> room.code,
     maxPlayers |-> room.maxPlayers,
     roles |-> room.roles,
     currentPlayers |-> Len(room.players),
     gameStarted |-> room.gameStarted,
     hostId |-> room.host,
     isHost |-> (p.id = room.host)]

\* st[p.ws] = "open" is playerData.ws.readyState === WebSocket.OPEN
Broadcast(room, st) ==
    LET live == SelectSeq(room.players, LAMBDA p : st[p.ws] = "open")
    IN  [i \in 1..Len(live) |-> GameStateMsg(room, live[i])]

broadcastGameState(room) == Broadcast(room, status)

ErrorMsg(s, text) == [to |-> s, type |-> "error", message |-> text]

EmptyMap == [x \in {} |-> 0]

\* ---- the heap ----------------------------------------------------------
\* objects reachable from the registry or from a live connection's closure
Reachable(rs, cr, st) ==
    {rs[c] : c \in DOMAIN rs}
        \cup {cr[s] : s \in {t \in Sessions : st[t] = "open" /\ cr[t] # Null}}

Restrict(f, S) == [x \in (DOMAIN f) \cap S |-> f[x]]

\* the reference of a newly allocated room object: the slot of its code when
\* that slot is free, else the first free slot after those
CodeIndex(roomCode) == CHOOSE i \in 1..NumCodes : ToString(FirstCode + i - 1) = roomCode

NewObjId(roomCode) ==
    IF CodeIndex(roomCode) \notin DOMAIN heap THEN CodeIndex(roomCode)
    ELSE CHOOSE o \in (ObjIds \ (1..NumCodes)) \ DOMAIN heap :
            \A q \in (ObjIds \ (1..NumCodes)) \ DOMAIN heap : o <= q

\* (a variant that leaves the entry in place)
RegistryDeleteNothing(rs, code) == rs

\* rooms.delete(code)
RegistryDelete(rs, code) == [c \in (DOMAIN rs) \ {code} |-> rs[c]]

\* (a variant that forgets the other entries)
RegistrySetOnly(rs, code, o) == [c \in {code} |-> o]

\* rooms.set(code, room)
RegistrySet(rs, code, o) == [c \in (DOMAIN rs) \cup {code} |-> IF c = code THEN o ELSE rs[c]]

\* ---- initial state -----------------------------------------------------
Init ==
    /\ now = 0
    /\ status = [s \in Sessions |-> "new"]
    /\ playerId = [s \in Sessions |-> NoId]
    /\ currentRoom = [s \in Sessions |-> Null]
    /\ rooms = EmptyMap
    /\ heap = EmptyMap
    /\ hist = EmptyMap
    /\ left = {}
    /\ hung = FALSE
    /\ sent = <<>>
    /\ ev = [type |-> "init"]
    /\ steps = 0

\* ---- inputs ------------------------------------------------------------
\* Date.now(): never earlier than the previous reading, possibly equal to it
DateNow == {t \in {now, now + 1} : t <= MaxClock}

\* data.roomCode as it arrives from JSON: a number, a string, or absent
RoomCodeInputs ==
    {[tag |-> "num", num |-> n, str |-> ""] : n \in CodeNumbers}
        \cup {[tag |-> "str", num |-> 0, str |-> c] : c \in Codes}
        \cup {[tag |-> "missing", num |-> 0, str |-> ""]}

\* data.roomCode.toString()
RoomCodeToString(rc) == IF rc.tag = "num" THEN ToString(rc.num) ELSE rc.str

\* data.playerId as a client may fill it in: its own id (from roomCreated or
\* roomJoined), the hostId its room's gameState broadcasts carry, or an id
\* that matches nobody
PlayerIdInputs(s) ==
    {playerId[s], "bogus"}
        \cup (IF currentRoom[s] = Null THEN {} ELSE {heap[currentRoom[s]].host})

PoolA == RolesArray(<<[name |-> "A", count |-> 1]>>)

\* data.maxPlayers and data.roles of an updateSettings message
SettingsInputs ==
    {[maxPlayers |-> 1, roles |-> PoolA],
     [maxPlayers |-> 2, roles |-> RolesUndefined]}

\* ---- generateRoomCode --------------------------------------------------
\* (a variant that samples once, without the loop)
generateRoomCodeOnce == Codes

\* the codes the do-while loop can return; none when every code is taken,
\* and then the loop never ends
generateRoomCode == Codes \ DOMAIN rooms

\* ---- role assignment (startGame's draw loop) ---------------------------
RECURSIVE Repeat(_, _)
Repeat(x, n) == IF n <= 0 THEN <<>> ELSE <<x>> \o Repeat(x, n - 1)

\* roles.forEach(role => push role.name role.count times)
RECURSIVE ExpandRoles(_)
ExpandRoles(items) ==
    IF items = <<>> THEN <<>>
    ELSE Repeat(Head(items).name, Head(items).count) \o ExpandRoles(Tail(items))

\* allRoles.splice(i, 1), 1-based
Splice(xs, i) == [j \in 1..(Len(xs) - 1) |-> IF j < i THEN xs[j] ELSE xs[j + 1]]

\* Math.floor(Math.random() * allRoles.length), 1-based: any index of the
\* array; index 0 of an empty array, which reads undefined
RandomIndexes(allRoles) == IF allRoles = <<>> THEN {1} ELSE 1..Len(allRoles)

RoleAt(allRoles, i) == IF i \in 1..Len(allRoles) THEN allRoles[i] ELSE Undefined

\* (a variant that draws with replacement)
SpliceNothing(allRoles, i) == allRoles

SpliceAt(allRoles, i) == IF i \in 1..Len(allRoles) THEN Splice(allRoles, i) ELSE allRoles

\* every assignment the loop over players can produce, as the sequence of
\* assignments.set(players[i], role) calls
RECURSIVE Assignments(_, _)
Assignments(players, allRoles) ==
    IF players = <<>> THEN {<<>>}
    ELSE UNION {
            {<<[pid |-> Head(players), role |-> RoleAt(allRoles, i)]>> \o rest :
                rest \in Assignments(Tail(players), SpliceAt(allRoles, i))} :
            i \in RandomIndexes(allRoles)}

\* assignments.get(pid)
AssignmentGet(asg, pid) ==
    LET idx == {i \in 1..Len(asg) : asg[i].pid = pid}
    IN  IF idx = {} THEN Undefined ELSE asg[CHOOSE i \in idx : \A j \in idx : j <= i].role

\* currentRoom.players.forEach: a gameResult to every member whose socket is OPEN
GameResults(room, asg) ==
    LET live == SelectSeq(room.players, LAMBDA p : status[p.ws] = "open")
    IN  [i \in 1..Len(live) |->
            [to |-> live[i].ws, type |-> "gameResult", role |-> AssignmentGet(asg, live[i].id)]]

\* ---- leaving -----------------------------------------------------------
\* (a variant that forgets the succession)
RemovePlayerKeepHost(room, pid) ==
    [room EXCEPT !.players = MapDelete(room.players, pid)]

\* players.delete(playerId), then host succession when the host has left
RemovePlayer(room, pid) ==
    LET ps == MapDelete(room.players, pid)
    IN  [room EXCEPT
            !.players = ps,
            !.host = IF pid = room.host /\ Len(ps) > 0 THEN OldestPlayer(ps).id ELSE room.host]

\* (a variant that keeps the reference)
DetachNothing(cr, s) == cr

\* currentRoom = null
Detach(cr, s) == [cr EXCEPT ![s] = Null]

\* the state after a handler: unreachable room objects are dropped
Commit(heap1, hist1, rooms1, cr1, st1) ==
    LET live == Reachable(rooms1, cr1, st1)
    IN  /\ heap' = Restrict(heap1, live)
        /\ hist' = Restrict(hist1, live)
        /\ rooms' = rooms1
        /\ currentRoom' = cr1
        /\ status' = st1

Put(f, k, v) == [x \in (DOMAIN f) \cup {k} |-> IF x = k THEN v ELSE f[x]]

\* an event is handled when the event loop is free; a run is followed up to
\* its MaxEvents-th state-changing event
Ready == ~hung /\ steps < MaxEvents

\* an event that changes the state is counted
Counted == steps' = steps + 1

\* ---- the transport -----------------------------------------------------
\* wss.on('connection'): playerId = Date.now().toString(), currentRoom = null
Connect(s) ==
    /\ Ready
    /\ status[s] = "new"
    /\ \A u \in Sessions : u < s => status[u] # "new"
    /\ \E t \in DateNow :
        /\ \A u \in Sessions : playerId[u] # ToString(t)
        /\ now' = t
        /\ playerId' = [playerId EXCEPT ![s] = ToString(t)]
    /\ status' = [status EXCEPT ![s] = "open"]
    /\ currentRoom' = [currentRoom EXCEPT ![s] = Null]
    /\ sent' = <<>>
    /\ ev' = [type |-> "connection", s |-> s]
    /\ UNCHANGED <<rooms, heap, hist, left, hung, steps>>

\* ---- the message handler -----------------------------------------------
\* case 'createRoom'
CreateRoom(s) ==
    /\ Ready
    /\ status[s] = "open"
    /\ IF generateRoomCode = {}
       THEN /\ hung' = TRUE
            /\ sent' = <<>>
            /\ ev' = [type |-> "createRoom", s |-> s, outcome |-> "spinning"]
            /\ UNCHANGED <<now, status, playerId, currentRoom, rooms, heap, hist, left, steps>>
       ELSE \E roomCode \in generateRoomCode : \E t \in DateNow :
            LET o == NewObjId(roomCode)
                newRoom == [createRoom(roomCode) EXCEPT
                               !.host = playerId[s],
                               !.players = MapSet(<<>>, playerId[s], PlayerData(playerId[s], s, t))]
            IN  /\ now' = t
                /\ Commit(Put(heap, o, newRoom),
                          Put(hist, o, [joins |-> 1, leaves |-> 0]),
                          RegistrySet(rooms, roomCode, o),
                          [currentRoom EXCEPT ![s] = o],
                          status)
                /\ sent' = <<[to |-> s, type |-> "roomCreated", roomCode |-> roomCode,
                              playerId |-> playerId[s], isHost |-> TRUE]>>
                            \o broadcastGameState(newRoom)
                /\ ev' = [type |-> "createRoom", s |-> s, outcome |-> "ok", room |-> o]
                /\ left' = left \ {s}
                /\ Counted
                /\ UNCHANGED <<playerId, hung>>

\* (a variant without the gameStarted check)
JoinOutcomeNoStarted(roomCode) ==
    IF roomCode \notin DOMAIN rooms THEN "notFound"
    ELSE IF Len(heap[rooms[roomCode]].players) >= heap[rooms[roomCode]].maxPlayers THEN "full"
    ELSE "ok"

\* why a joinRoom for this code is refused, or "ok"
JoinOutcome(roomCode) ==
    IF roomCode \notin DOMAIN rooms THEN "notFound"
    ELSE IF heap[rooms[roomCode]].gameStarted THEN "started"
    ELSE IF Len(heap[rooms[roomCode]].players) >= heap[rooms[roomCode]].maxPlayers THEN "full"
    ELSE "ok"

\* English for the three Korean error texts of the source
JoinErrorText(outcome) ==
    IF outcome = "notFound" THEN "no such room code"
    ELSE IF outcome = "started" THEN "game already started"
    ELSE "room is full"

\* case 'joinRoom'
JoinRoom(s, rc) ==
    /\ Ready
    /\ status[s] = "open"
    /\ IF rc.tag = "missing"
       THEN \* data.roomCode.toString() throws; the catch block logs it
            /\ sent' = <<>>
            /\ ev' = [type |-> "joinRoom", s |-> s, outcome |-> "threw"]
            /\ UNCHANGED <<now, status, playerId, currentRoom, rooms, heap, hist, left, hung, steps>>
       ELSE LET roomCode == RoomCodeToString(rc)
                outcome == JoinOutcome(roomCode)
            IN  IF outcome # "ok"
                THEN /\ sent' = <<ErrorMsg(s, JoinErrorText(outcome))>>
                     /\ ev' = [type |-> "joinRoom", s |-> s, outcome |-> outcome, code |-> roomCode]
                     /\ UNCHANGED <<now, status, playerId, currentRoom, rooms, heap, hist, left, hung, steps>>
                ELSE \E t \in DateNow :
                     LET o == rooms[roomCode]
                         room == [heap[o] EXCEPT
                                     !.players = MapSet(@, playerId[s], PlayerData(playerId[s], s, t))]
                     IN  /\ now' = t
                         /\ Commit([heap EXCEPT ![o] = room],
                                   [hist EXCEPT ![o].joins = @ + 1],
                                   rooms,
                                   [currentRoom EXCEPT ![s] = o],
                                   status)
                         /\ sent' = <<[to |-> s, type |-> "roomJoined", roomCode |-> roomCode,
                                       playerId |-> playerId[s],
                                       isHost |-> (playerId[s] = room.host)]>>
                                     \o broadcastGameState(room)
                         /\ ev' = [type |-> "joinRoom", s |-> s, outcome |-> "ok", code |-> roomCode,
                                   room |-> o]
                         /\ left' = left \ {s}
                         /\ Counted
                /\ UNCHANGED <<playerId, hung>>

\* case 'leaveRoom'
LeaveRoom(s) ==
    /\ Ready
    /\ status[s] = "open"
    /\ IF currentRoom[s] = Null
       THEN /\ sent' = <<>>
            /\ ev' = [type |-> "leaveRoom", s |-> s, outcome |-> "ignored"]
            /\ UNCHANGED <<now, status, playerId, currentRoom, rooms, heap, hist, left, hung, steps>>
       ELSE LET o == currentRoom[s]
                room == RemovePlayer(heap[o], playerId[s])
                empty == Len(room.players) = 0
            IN  /\ Commit([heap EXCEPT ![o] = room],
                          [hist EXCEPT ![o].leaves = @ + 1],
                          IF empty THEN RegistryDelete(rooms, room.code) ELSE rooms,
                          Detach(currentRoom, s),
                          status)
                /\ sent' = IF empty THEN <<>> ELSE broadcastGameState(room)
                /\ ev' = [type |-> "leaveRoom", s |-> s, outcome |-> "ok", room |-> o,
                          code |-> room.code, wasHost |-> (playerId[s] = heap[o].host)]
                /\ left' = left \cup {s}
                /\ Counted
                /\ UNCHANGED <<now, playerId, hung>>

\* case 'updateSettings'
UpdateSettings(s, pid, settings) ==
    /\ Ready
    /\ status[s] = "open"
    /\ IF currentRoom[s] # Null /\ pid = heap[currentRoom[s]].host
       THEN LET o == currentRoom[s]
                room == [heap[o] EXCEPT !.maxPlayers = settings.maxPlayers,
                                        !.roles = settings.roles]
            IN  /\ heap' = [heap EXCEPT ![o] = room]
                /\ sent' = broadcastGameState(room)
                /\ ev' = [type |-> "updateSettings", s |-> s, outcome |-> "ok",
                          room |-> o, settings |-> settings]
                /\ Counted
                /\ UNCHANGED <<now, status, playerId, currentRoom, rooms, hist, left, hung>>
       ELSE /\ sent' = <<>>
            /\ ev' = [type |-> "updateSettings", s |-> s, outcome |-> "ignored",
                      settings |-> settings]
            /\ UNCHANGED <<now, status, playerId, currentRoom, rooms, heap, hist, left, hung, steps>>

\* case 'startGame'
StartGame(s, pid) ==
    /\ Ready
    /\ status[s] = "open"
    /\ IF currentRoom[s] # Null /\ pid = heap[currentRoom[s]].host
            /\ ~heap[currentRoom[s]].gameStarted
       THEN LET o == currentRoom[s]
                room == [heap[o] EXCEPT !.gameStarted = TRUE]
            IN  /\ heap' = [heap EXCEPT ![o] = room]
                /\ IF ~room.roles.isArray
                   THEN \* currentRoom.roles.forEach throws; the catch block logs it
                        /\ sent' = <<>>
                        /\ ev' = [type |-> "startGame", s |-> s, outcome |-> "threw",
                                  room |-> o]
                   ELSE \E asg \in Assignments(MapKeys(room.players), ExpandRoles(room.roles.items)) :
                        /\ sent' = GameResults(room, asg) \o broadcastGameState(room)
                        /\ ev' = [type |-> "startGame", s |-> s, outcome |-> "ok",
                                  room |-> o, assignments |-> asg]
                /\ Counted
                /\ UNCHANGED <<now, status, playerId, currentRoom, rooms, hist, left, hung>>
       ELSE /\ sent' = <<>>
            /\ ev' = [type |-> "startGame", s |-> s, outcome |-> "ignored"]
            /\ UNCHANGED <<now, status, playerId, currentRoom, rooms, heap, hist, left, hung, steps>>

\* a message that is not JSON, or whose type matches no case
OtherMessage(s) ==
    /\ Ready
    /\ status[s] = "open"
    /\ sent' = <<>>
    /\ ev' = [type |-> "other", s |-> s, outcome |-> "ignored"]
    /\ UNCHANGED <<now, status, playerId, currentRoom, rooms, heap, hist, left, hung, steps>>

\* ws.on('close'); the connection's closure is garbage afterwards
Close(s) ==
    /\ Ready
    /\ status[s] = "open"
    /\ IF currentRoom[s] = Null
       THEN /\ status' = [status EXCEPT ![s] = "closed"]
            /\ sent' = <<>>
            /\ ev' = [type |-> "close", s |-> s, outcome |-> "ignored"]
            /\ Counted
            /\ UNCHANGED <<now, playerId, currentRoom, rooms, heap, hist, left, hung>>
       ELSE LET o == currentRoom[s]
                room == RemovePlayer(heap[o], playerId[s])
                empty == Len(room.players) = 0
                st1 == [status EXCEPT ![s] = "closed"]
            IN  /\ Commit([heap EXCEPT ![o] = room],
                          [hist EXCEPT ![o].leaves = @ + 1],
                          IF empty THEN RegistryDelete(rooms, room.code) ELSE rooms,
                          [currentRoom EXCEPT ![s] = Null],
                          st1)
                /\ sent' = IF empty THEN <<>> ELSE Broadcast(room, st1)
                /\ ev' = [type |-> "close", s |-> s, outcome |-> "ok", room |-> o,
                          code |-> room.code, wasHost |-> (playerId[s] = heap[o].host)]
                /\ Counted
                /\ UNCHANGED <<now, playerId, left, hung>>

Next ==
    \/ \E s \in Sessions : Connect(s)
    \/ \E s \in Sessions : CreateRoom(s)
    \/ \E s \in Sessions : \E rc \in RoomCodeInputs : JoinRoom(s, rc)
    \/ \E s \in Sessions : LeaveRoom(s)
    \/ \E s \in Sessions : \E pid \in PlayerIdInputs(s) : \E settings \in SettingsInputs :
            UpdateSettings(s, pid, settings)
    \/ \E s \in Sessions : \E pid \in PlayerIdInputs(s) : StartGame(s, pid)
    \/ \E s \in Sessions : OtherMessage(s)
    \/ \E s \in Sessions : Close(s)

Spec == Init /\ [][Next]_vars

\* ======================================================================
\* Properties
\* ======================================================================
Keys(ps) == {ps[i].id : i \in 1..Len(ps)}

Registered == {rooms[c] : c \in DOMAIN rooms}

Departure == ev.type \in {"leaveRoom", "close"} /\ ev.outcome = "ok"

\* C1: the host of every registered room is a key of that room's players
\* map (player ids are distinct per connection).
C1_HostIsMember ==
    \A o \in Registered : heap[o].host \in Keys(heap[o].players)

\* a host has just left a room that lives on under a successor
C1_Witness ==
    /\ Departure
    /\ ev.wasHost
    /\ ev.room \in Registered
    /\ heap[ev.room].host # playerId[ev.s]

\* C2: every registered room has at least one member; a joinRoom is answered
\* with the room-not-found error exactly when its code is not registered, as
\* the code of a room whose last member has left is not.
C2_NoEmptyRoom ==
    /\ \A c \in DOMAIN rooms :
        /\ Len(heap[rooms[c]].players) >= 1
        /\ heap[rooms[c]].code = c
    /\ (ev.type = "joinRoom" /\ ev.outcome # "threw") =>
        /\ (ev.outcome = "notFound") <=> (ev.code \notin DOMAIN rooms)
        /\ (ev.outcome = "notFound") => sent = <<ErrorMsg(ev.s, JoinErrorText("notFound"))>>

\* the last member has just left and the room's code is free again
C2_Witness ==
    /\ Departure
    /\ ev.room \notin DOMAIN heap
    /\ ev.code \notin DOMAIN rooms

\* s is attached to a room it is a member of and is not that room's host
NonHostMember(s) ==
    /\ status[s] = "open"
    /\ currentRoom[s] # Null
    /\ playerId[s] \in Keys(heap[currentRoom[s]].players)
    /\ playerId[s] # heap[currentRoom[s]].host

NoGameMessage(msgs) == \A i \in 1..Len(msgs) : msgs[i].type \notin {"gameResult", "gameState"}

\* C3: an updateSettings or startGame message of a member that is not the
\* host leaves the room's maxPlayers, roles, gameStarted and host as they
\* were and sends no gameResult and no gameState.
C3_Step ==
    \A s \in Sessions :
        (NonHostMember(s) /\ ev'.type \in {"updateSettings", "startGame"} /\ ev'.s = s) =>
            /\ currentRoom[s] \in DOMAIN heap'
            /\ heap'[currentRoom[s]].maxPlayers = heap[currentRoom[s]].maxPlayers
            /\ heap'[currentRoom[s]].roles = heap[currentRoom[s]].roles
            /\ heap'[currentRoom[s]].gameStarted = heap[currentRoom[s]].gameStarted
            /\ heap'[currentRoom[s]].host = heap[currentRoom[s]].host
            /\ NoGameMessage(sent')

C3_NonHostHasNoEffect == [][C3_Step]_vars

\* C4: an updateSettings message in a room whose game has started leaves
\* maxPlayers and roles unchanged.
C4_Step ==
    \A s \in Sessions :
        (/\ status[s] = "open"
         /\ currentRoom[s] # Null
         /\ heap[currentRoom[s]].gameStarted
         /\ ev'.type = "updateSettings"
         /\ ev'.s = s) =>
            /\ heap'[currentRoom[s]].maxPlayers = heap[currentRoom[s]].maxPlayers
            /\ heap'[currentRoom[s]].roles = heap[currentRoom[s]].roles

C4_NoUpdateAfterStart == [][C4_Step]_vars

\* ---- role assignment ---------------------------------------------------
RECURSIVE SumCounts(_)
SumCounts(items) == IF items = <<>> THEN 0 ELSE Head(items).count + SumCounts(Tail(items))

\* the count configured for a role name (over all entries of that name)
ConfiguredCount(items, name) == SumCounts(SelectSeq(items, LAMBDA r : r.name = name))

AssignedCount(asg, name) == Cardinality({i \in 1..Len(asg) : asg[i].role = name})

RoleNames(items) == {items[i].name : i \in 1..Len(items)}

\* the draw loop of a startGame has just run over an array of roles
GameDrawn == ev.type = "startGame" /\ ev.outcome = "ok"

PoolSize == SumCounts(heap[ev.room].roles.items)

\* C5: when the pool holds at least as many labels as the room has members,
\* the assignment gives every member exactly one role label, and no role
\* name is assigned more often than its configured count.
C5_AssignmentRespectsPool ==
    (GameDrawn /\ PoolSize >= Len(heap[ev.room].players)) =>
        /\ \A pid \in Keys(heap[ev.room].players) :
            /\ Cardinality({i \in 1..Len(ev.assignments) : ev.assignments[i].pid = pid}) = 1
            /\ AssignmentGet(ev.assignments, pid) \in RoleNames(heap[ev.room].roles.items)
        /\ \A i \in 1..Len(ev.assignments) :
            ev.assignments[i].pid \in Keys(heap[ev.room].players)
        /\ \A name \in RoleNames(heap[ev.room].roles.items) :
            AssignedCount(ev.assignments, name) <= ConfiguredCount(heap[ev.room].roles.items, name)

\* three members have drawn from the default pool of 3 + 2 labels
C5_Witness ==
    /\ GameDrawn
    /\ Len(heap[ev.room].players) = 3
    /\ PoolSize >= 3
    /\ \E i, j \in 1..3 : ev.assignments[i].role # ev.assignments[j].role

\* C6: when the pool holds fewer labels than the room has members, startGame
\* assigns nobody a role and sends nobody a gameResult.
C6_InsufficientRolesAborts ==
    (GameDrawn /\ PoolSize < Len(heap[ev.room].players)) =>
        /\ \A i \in 1..Len(ev.assignments) : ev.assignments[i].role = Undefined
        /\ \A i \in 1..Len(sent) : sent[i].type # "gameResult"

\* ---- host succession ---------------------------------------------------
\* C7: when the host leaves (leaveRoom or close) and members remain, the new
\* host is a remaining member whose joinTime is at most every remaining
\* member's; when somebody else leaves, the host stays.
C7_Step ==
    (ev'.type \in {"leaveRoom", "close"} /\ ev'.outcome = "ok") =>
        LET o == currentRoom[ev'.s]
            pid == playerId[ev'.s]
            remain == Len(MapDelete(heap[o].players, pid)) > 0
        IN  /\ o = ev'.room
            /\ remain => o \in DOMAIN heap'
            /\ IF pid = heap[o].host
               THEN remain =>
                    /\ Keys(heap'[o].players) = Keys(heap[o].players) \ {pid}
                    /\ \E i \in 1..Len(heap'[o].players) :
                        /\ heap'[o].players[i].id = heap'[o].host
                        /\ \A j \in 1..Len(heap'[o].players) :
                            heap'[o].players[i].joinTime <= heap'[o].players[j].joinTime
               ELSE /\ o \in DOMAIN heap'
                    /\ heap'[o].host = heap[o].host

C7_OldestSucceeds == [][C7_Step]_vars

\* the host has left two members who joined at different times
C7_Witness ==
    /\ Departure
    /\ ev.wasHost
    /\ ev.room \in DOMAIN heap
    /\ Len(heap[ev.room].players) = 2
    /\ heap[ev.room].players[1].joinTime # heap[ev.room].players[2].joinTime

\* ---- rejected joins ----------------------------------------------------
\* C8: a joinRoom is rejected for an unregistered code, else for a started
\* game, else for a full room; a rejected joinRoom sends one error to the
\* requester and nothing else, and changes no room, no registry entry and no
\* currentRoom; a room whose game has started never gains a player.
C8_Step ==
    /\ (ev'.type = "joinRoom" /\ ev'.outcome # "threw") =>
        LET known == ev'.code \in DOMAIN rooms
            started == heap[rooms[ev'.code]].gameStarted
            full == Len(heap[rooms[ev'.code]].players) >= heap[rooms[ev'.code]].maxPlayers
        IN  /\ ev'.outcome =
                (IF ~known THEN "notFound" ELSE IF started THEN "started"
                 ELSE IF full THEN "full" ELSE "ok")
            /\ ev'.outcome # "ok" =>
                /\ sent' = <<ErrorMsg(ev'.s, JoinErrorText(ev'.outcome))>>
                /\ UNCHANGED <<rooms, heap, currentRoom, hist>>
    /\ \A o \in DOMAIN heap :
        (heap[o].gameStarted /\ o \in DOMAIN heap') =>
            Keys(heap'[o].players) \subseteq Keys(heap[o].players)

C8_RejectedJoinIsInert == [][C8_Step]_vars

\* a joinRoom has just been refused because the game had started
C8_Witness ==
    /\ ev.type = "joinRoom"
    /\ ev.outcome = "started"
    /\ sent = <<ErrorMsg(ev.s, JoinErrorText("started"))>>

\* ---- membership --------------------------------------------------------
\* C9: the size of a registered room's players map is the number of
\* successful joins (the creator's included) minus the number of leaves
\* (leaveRoom and close), and is not negative.
C9_SizeIsJoinsMinusLeaves ==
    \A o \in Registered :
        /\ Len(heap[o].players) = hist[o].joins - hist[o].leaves
        /\ Len(heap[o].players) >= 0

\* C10: a connection's id is a key of a registered room's players map exactly
\* when that room is the connection's currentRoom, so it is a member of at
\* most one room and of none when it is unattached.
C10_MemberOfCurrentRoomOnly ==
    \A s \in Sessions : status[s] # "new" =>
        \A o \in Registered :
            (playerId[s] \in Keys(heap[o].players)) <=> (currentRoom[s] = o)

\* ---- leaving twice -----------------------------------------------------
\* C11: once a connection has left by leaveRoom (and has not created or
\* joined a room since), a further leaveRoom or the close of that connection
\* changes no room's players or host and no registry entry, and sends
\* nothing.
C11_Step ==
    \A s \in left :
        (ev'.type \in {"leaveRoom", "close"} /\ ev'.s = s) =>
            /\ rooms' = rooms
            /\ \A o \in DOMAIN heap :
                /\ o \in DOMAIN heap'
                /\ heap'[o].players = heap[o].players
                /\ heap'[o].host = heap[o].host
            /\ hist' = hist
            /\ sent' = <<>>

C11_LeaveIsIdempotent == [][C11_Step]_vars

\* a connection that had left a room now closes while a room that somebody
\* left is still registered
C11_Witness ==
    /\ ev.type = "close"
    /\ ev.s \in left
    /\ \E o \in Registered : hist[o].leaves >= 1

\* ---- room codes -------------------------------------------------------
\* C12: the rooms of the registry are distinct objects with pairwise distinct
\* codes; a createRoom takes a code that is not in the registry and leaves
\* every registered room and its registry entry as they were.
C12_Distinct ==
    \A c, d \in DOMAIN rooms :
        c # d => (rooms[c] # rooms[d] /\ heap[rooms[c]].code # heap[rooms[d]].code)

C12_Step ==
    (ev'.type = "createRoom" /\ ev'.outcome = "ok") =>
        /\ heap'[ev'.room].code \notin DOMAIN rooms
        /\ rooms'[heap'[ev'.room].code] = ev'.room
        /\ DOMAIN rooms' = DOMAIN rooms \cup {heap'[ev'.room].code}
        /\ \A c \in DOMAIN rooms :
            /\ rooms'[c] = rooms[c]
            /\ heap'[rooms[c]] = heap[rooms[c]]

C12_FreshCode == []C12_Distinct /\ [][C12_Step]_vars

\* a room has just been created next to a registered one
C12_Witness ==
    /\ ev.type = "createRoom"
    /\ ev.outcome = "ok"
    /\ Cardinality(DOMAIN rooms) = 2
    /\ \E c \in DOMAIN rooms : rooms[c] # ev.room /\ Len(heap[rooms[c]].players) >= 1

\* ---- gameStarted -------------------------------------------------------
\* C13: a room is created with gameStarted false; no step sets the flag of a
\* room back to false; the draw of a startGame runs only in a room whose
\* flag was false, and sets it.
C13_Step ==
    /\ (ev'.type = "createRoom" /\ ev'.outcome = "ok") => ~heap'[ev'.room].gameStarted
    /\ \A o \in DOMAIN heap :
        (heap[o].gameStarted /\ o \in DOMAIN heap') => heap'[o].gameStarted
    /\ (ev'.type = "startGame" /\ ev'.outcome \in {"ok", "threw"}) =>
        /\ ~heap[ev'.room].gameStarted
        /\ heap'[ev'.room].gameStarted

C13_GameStartedMonotonic == [][C13_Step]_vars

\* a startGame has just been ignored in a room whose game had started, and
\* the flag is still set
C13_Witness ==
    /\ ev.type = "startGame"
    /\ ev.outcome = "ignored"
    /\ currentRoom[ev.s] # Null
    /\ playerId[ev.s] = heap[currentRoom[ev.s]].host
    /\ heap[currentRoom[ev.s]].gameStarted

\* ---- malformed messages ------------------------------------------------
\* the message handled by the step is malformed or unrecognized: no known
\* type, a joinRoom without roomCode, an updateSettings without a roles array
Malformed(e) ==
    \/ e.type = "other"
    \/ e.type = "joinRoom" /\ e.outcome = "threw"
    \/ e.type = "updateSettings" /\ ~e.settings.roles.isArray

\* C14: a malformed or unrecognized message changes no room and no registry
\* entry, and the connection stays open with the event loop free.
C14_Step ==
    Malformed(ev') =>
        /\ UNCHANGED <<rooms, heap, currentRoom>>
        /\ status'[ev'.s] = "open"
        /\ ~hung'

C14_MalformedIsInert == [][C14_Step]_vars

\* ---- broadcasts --------------------------------------------------------
\* the step handled last changed the room ev.room: a createRoom, an accepted
\* joinRoom, a leaveRoom or close of a member, an updateSettings or a
\* startGame that passed its guard
RoomChanged ==
    \/ ev.type \in {"createRoom", "joinRoom", "leaveRoom", "close", "updateSettings"}
            /\ ev.outcome = "ok"
    \/ ev.type = "startGame" /\ ev.outcome \in {"ok", "threw"}

GameStatesTo(s) == {i \in 1..Len(sent) : sent[i].type = "gameState" /\ sent[i].to = s}

OpenMembers(room) == {room.players[i].ws : i \in {j \in 1..Len(room.players) : status[room.players[j].ws] = "open"}}

\* C15: after a step that changed a room and left it registered, the step
\* has sent exactly one gameState to every member of the room whose
\* connection is open and none to anybody else; each carries the room's
\* maxPlayers, roles, player count, gameStarted and host as they are after
\* the step, and isHost is true exactly for the host.
C15_BroadcastFollows ==
    (RoomChanged /\ ev.room \in Registered) =>
        LET room == heap[ev.room]
        IN  /\ \A s \in Sessions :
                Cardinality(GameStatesTo(s)) = (IF s \in OpenMembers(room) THEN 1 ELSE 0)
            /\ \A i \in 1..Len(sent) : sent[i].type = "gameState" =>
                /\ sent[i].roomCode = room.code
                /\ sent[i].maxPlayers = room.maxPlayers
                /\ sent[i].roles = room.roles
                /\ sent[i].currentPlayers = Len(room.players)
                /\ sent[i].gameStarted = room.gameStarted
                /\ sent[i].hostId = room.host
                /\ sent[i].isHost = (playerId[sent[i].to] = room.host)

\* ---- game results ------------------------------------------------------
\* a startGame has just passed its guard
EffectiveStart == ev.type = "startGame" /\ ev.outcome \in {"ok", "threw"}

GameResultsTo(s) == {i \in 1..Len(sent) : sent[i].type = "gameResult" /\ sent[i].to = s}

\* C16: a startGame that passed its guard has sent every member whose
\* connection is open exactly one gameResult, with the role assigned to
\* that member, all of them before the gameState messages, which show
\* gameStarted true; no other step sends a gameResult, and a room's
\* gameResults are sent only while its gameStarted flag turns true, hence
\* once.
C16_Sent ==
    /\ EffectiveStart =>
        /\ \A s \in Sessions :
            Cardinality(GameResultsTo(s)) = (IF s \in OpenMembers(heap[ev.room]) THEN 1 ELSE 0)
        /\ \A i \in 1..Len(sent) :
            /\ sent[i].type = "gameResult" =>
                /\ sent[i].role = AssignmentGet(ev.assignments, playerId[sent[i].to])
                /\ \A j \in 1..Len(sent) : sent[j].type = "gameState" => i < j
            /\ sent[i].type = "gameState" => sent[i].gameStarted
        /\ \E j \in 1..Len(sent) : sent[j].type = "gameState"
    /\ ~EffectiveStart => \A i \in 1..Len(sent) : sent[i].type # "gameResult"

C16_Step ==
    (\E i \in 1..Len(sent') : sent'[i].type = "gameResult") =>
        /\ ev'.type = "startGame"
        /\ ~heap[ev'.room].gameStarted
        /\ heap'[ev'.room].gameStarted

C16_OneResultEach == []C16_Sent /\ [][C16_Step]_vars

\* ---- switching rooms ---------------------------------------------------
\* C17: when a connection attached to a room R creates a room, or joins a
\* room other than R, its currentRoom becomes the new room, and R keeps its
\* registry entry, players (the connection's entry included), host,
\* maxPlayers, roles and gameStarted.
C17_Step ==
    (ev'.type \in {"createRoom", "joinRoom"} /\ ev'.outcome = "ok") =>
        LET R == currentRoom[ev'.s]
        IN  (R # Null /\ ev'.room # R) =>
                /\ currentRoom'[ev'.s] = ev'.room
                /\ \A c \in DOMAIN rooms : rooms[c] = R =>
                        (c \in DOMAIN rooms' /\ rooms'[c] = R)
                /\ R \in DOMAIN heap'
                /\ heap'[R] = heap[R]
                /\ playerId[ev'.s] \in Keys(heap'[R].players)

C17_SwitchLeavesOldRoom == [][C17_Step]_vars

\* a connection has just joined a room while its entry stays in the
\* registered room it created
C17_Witness ==
    /\ ev.type = "joinRoom"
    /\ ev.outcome = "ok"
    /\ \E o \in Registered :
        /\ o # ev.room
        /\ heap[o].host = playerId[ev.s]
        /\ playerId[ev.s] \in Keys(heap[o].players)

\* ---- termination of generateRoomCode -----------------------------------
\* C18: generateRoomCode never spins: every createRoom ends, with a room or,
\* when every code is registered, with a CapacityExhausted failure, and the
\* event loop stays free.
C18_GenerationTerminates ==
    /\ ~hung
    /\ ev.type = "createRoom" => ev.outcome \in {"ok", "capacityExhausted"}

\* ---- capacity ----------------------------------------------------------
\* C19: no registered room has more members than its maxPlayers.
C19_WithinCapacity ==
    \A o \in Registered : Len(heap[o].players) <= heap[o].maxPlayers

\* ---- rooms and their connections ---------------------------------------
\* C20: when no connection is open (every connection that has been opened
\* has closed), the registry is empty.
C20_NoRoomOutlivesConnections ==
    (\A s \in Sessions : status[s] # "open") => DOMAIN rooms = {}

====
